---- MODULE Spec2Model ----
(***************************************************************************)
(* A model of the ray-casting renderer of src/src/main.rs and of its       *)
(* keyboard snapshot src/src/keyboard.rs.                                  *)
(*                                                                         *)
(* The program computes with IEEE-754 binary64 numbers (f64).  Several of  *)
(* its properties depend on how f64 rounds, so the model carries f64       *)
(* values exactly: a number is <<s, e, h, l>>, standing for                *)
(*      (-1)^s * (h * 2^28 + l) * 2^e                                      *)
(* with a 53-bit significand 2^52 <= h * 2^28 + l < 2^53 (h has 25 bits,   *)
(* l has 28), or <<0, 0, 0, 0>> for zero.  Addition, multiplication and    *)
(* division round to nearest, ties to even, as the hardware does.  The     *)
(* ranges of the program stay far from overflow, underflow and NaN, which  *)
(* the encoding leaves out; the quotient by zero is FInf; -0.0 is          *)
(* identified with 0.0 (the program only truncates, compares and adds its  *)
(* numbers).                                                               *)
(***************************************************************************)
EXTENDS Integers, Sequences, FiniteSets, TLC

(***************************************************************************)
(* Bounds of the model.  The program runs for ever and its numbers never   *)
(* repeat, so every specification below explores the frames of a bounded   *)
(* session: so many keyboard events, so many frames that rotate the        *)
(* player, so many frames that displace it.                                *)
(***************************************************************************)
\* Spec: short sessions, three columns rendered
MaxEvents == 2
MaxTurns == 3
MaxMoves == 5
\* SpecWalk: a long walk with one turn in it, the centre column rendered
WalkEvents == 3
WalkTurns == 1
WalkMoves == 31
\* SpecTurn: a turn and a long walk, the centre column rendered
TurnEvents == 2
TurnTurns == 8
TurnMoves == 37
\* rounds of the ray march the model can run: MarchBlocks blocks of MarchBlock
MarchBlock == 16
MarchBlocks == 16

(***************************************************************************)
(* f64 arithmetic                                                          *)
(***************************************************************************)
\* Powers of two, 2^0 .. 2^30, P2[n + 1] = 2^n.
P2 ==
  <<1, 2, 4, 8, 16, 32, 64, 128, 256, 512, 1024, 2048, 4096, 8192, 16384,
    32768, 65536, 131072, 262144, 524288, 1048576, 2097152, 4194304,
    8388608, 16777216, 33554432, 67108864, 134217728, 268435456,
    536870912, 1073741824>>

Pow2(n) == P2[n + 1]

FZero == <<0, 0, 0, 0>>

IsZero(a) == a[3] = 0 /\ a[4] = 0

\* Number of bits of a natural number below 2^30.
BitLen(x) == IF x = 0 THEN 0 ELSE CHOOSE n \in 1..30 : Pow2(n - 1) <= x /\ x < Pow2(n)

\* The pair <<h, l>> stands for the natural number h * 2^28 + l, l < 2^28.
\* Right shift by n bits; the bits shifted out are or-ed into bit 0 (sticky).
ShrSticky(h, l, n) ==
  IF n = 0 THEN <<h, l>>
  ELSE IF n < 28 THEN
    LET q  == (l \div Pow2(n)) + (h % Pow2(n)) * Pow2(28 - n)
        st == (l % Pow2(n)) # 0
    IN <<h \div Pow2(n), IF st /\ q % 2 = 0 THEN q + 1 ELSE q>>
  ELSE IF n < 57 THEN
    LET q  == h \div Pow2(n - 28)
        st == (h % Pow2(n - 28)) # 0 \/ l # 0
    IN <<0, IF st /\ q % 2 = 0 THEN q + 1 ELSE q>>
  ELSE <<0, IF h # 0 \/ l # 0 THEN 1 ELSE 0>>

\* Left shift by n bits of a number below 2^(56 - n).
Shl(h, l, n) ==
  IF n = 0 THEN <<h, l>>
  ELSE IF n < 28 THEN <<h * Pow2(n) + (l \div Pow2(28 - n)), (l % Pow2(28 - n)) * Pow2(n)>>
  ELSE <<l * Pow2(n - 28), 0>>

\* Round a 56-bit number z = h * 2^28 + l (2^55 <= z < 2^56, its last bit
\* sticky) standing for z * 2^e to 53 bits, to nearest, ties to even.
Round56(s, e, h, l) ==
  LET rem == l % 8
      mh  == h \div 8
      ml  == (h % 8) * Pow2(25) + (l \div 8)
      up  == rem > 4 \/ (rem = 4 /\ ml % 2 = 1)
  IN IF ~up THEN <<s, e + 3, mh, ml>>
     ELSE IF ml + 1 < Pow2(28) THEN <<s, e + 3, mh, ml + 1>>
     ELSE IF mh + 1 < Pow2(25) THEN <<s, e + 3, mh + 1, 0>>
     ELSE <<s, e + 4, Pow2(24), 0>>

\* Normalise h * 2^28 + l (below 2^58, last bit sticky), standing for
\* (h * 2^28 + l) * 2^e, to 56 bits and round it.
Pack(s, e, h, l) ==
  IF h = 0 /\ l = 0 THEN FZero
  ELSE IF h >= Pow2(29) THEN
    LET z == ShrSticky(h, l, 2) IN Round56(s, e + 2, z[1], z[2])
  ELSE IF h >= Pow2(28) THEN
    LET z == ShrSticky(h, l, 1) IN Round56(s, e + 1, z[1], z[2])
  ELSE IF h >= Pow2(27) THEN Round56(s, e, h, l)
  ELSE
    LET n == IF h # 0 THEN 28 - BitLen(h) ELSE 56 - BitLen(l)
        z == Shl(h, l, n)
    IN Round56(s, e - n, z[1], z[2])

\* |a| >= |b| for two numbers different from zero
MagGeq(a, b) ==
  \/ a[2] > b[2]
  \/ a[2] = b[2] /\ a[3] > b[3]
  \/ a[2] = b[2] /\ a[3] = b[3] /\ a[4] >= b[4]

\* big + small, |big| >= |small|, both different from zero
AddOrdered(big, small) ==
  LET x == Shl(big[3], big[4], 3)
      y0 == Shl(small[3], small[4], 3)
      y == ShrSticky(y0[1], y0[2], big[2] - small[2])
      e == big[2] - 3
  IN IF big[1] = small[1]
     THEN LET lo == x[2] + y[2]
          IN Pack(big[1], e, x[1] + y[1] + (lo \div Pow2(28)), lo % Pow2(28))
     ELSE LET lo == x[2] - y[2]
          IN IF lo >= 0 THEN Pack(big[1], e, x[1] - y[1], lo)
             ELSE Pack(big[1], e, x[1] - y[1] - 1, lo + Pow2(28))

FAdd(a, b) ==
  IF IsZero(a) THEN b
  ELSE IF IsZero(b) THEN a
  ELSE IF MagGeq(a, b) THEN AddOrdered(a, b) ELSE AddOrdered(b, a)

FNeg(a) == IF IsZero(a) THEN a ELSE <<1 - a[1], a[2], a[3], a[4]>>

FSub(a, b) == FAdd(a, FNeg(b))

\* The four 14-bit limbs of a significand, least significant first.
Limbs(a) == <<a[4] % 16384, a[4] \div 16384, a[3] % 16384, a[3] \div 16384>>

\* The product of two significands as eight 14-bit limbs, least significant
\* first (schoolbook multiplication; every column sum stays below 2^31).
MulLimbs(x, y) ==
  LET t0 == x[1] * y[1]
      t1 == x[1] * y[2] + x[2] * y[1] + (t0 \div 16384)
      t2 == x[1] * y[3] + x[2] * y[2] + x[3] * y[1] + (t1 \div 16384)
      t3 == x[1] * y[4] + x[2] * y[3] + x[3] * y[2] + x[4] * y[1] + (t2 \div 16384)
      t4 == x[2] * y[4] + x[3] * y[3] + x[4] * y[2] + (t3 \div 16384)
      t5 == x[3] * y[4] + x[4] * y[3] + (t4 \div 16384)
      t6 == x[4] * y[4] + (t5 \div 16384)
  IN <<t0 % 16384, t1 % 16384, t2 % 16384, t3 % 16384, t4 % 16384,
       t5 % 16384, t6 % 16384, t6 \div 16384>>

\* The product p (106 bits) is cut to its leading bits p \div 2^49, the
\* rest is sticky.
MulPack(s, e, p) ==
  LET hi == p[8] * 16384 + p[7]
      mi == p[6] * 16384 + p[5]
      lo == (mi % Pow2(21)) * 128 + (p[4] \div 128)
      st == (p[4] % 128) # 0 \/ p[3] # 0 \/ p[2] # 0 \/ p[1] # 0
  IN Pack(s, e + 49, hi * 128 + (mi \div Pow2(21)),
          IF st /\ lo % 2 = 0 THEN lo + 1 ELSE lo)

FMul(a, b) ==
  IF IsZero(a) \/ IsZero(b) THEN FZero
  ELSE MulPack((a[1] + b[1]) % 2, a[2] + b[2], MulLimbs(Limbs(a), Limbs(b)))

\* <<h, l>> pairs below 2^56: comparison, subtraction, doubling
PairGeq(p, q) == p[1] > q[1] \/ (p[1] = q[1] /\ p[2] >= q[2])

PairSub(p, q) ==
  IF p[2] >= q[2] THEN <<p[1] - q[1], p[2] - q[2]>>
  ELSE <<p[1] - q[1] - 1, p[2] - q[2] + 268435456>>

PairDouble(p) == <<2 * p[1] + ((2 * p[2]) \div 268435456), (2 * p[2]) % 268435456>>

\* Long division: n more bits of the quotient of r * 2^n by d, r < d.
\* Returns <<quotient bits, remainder pair>>.
RECURSIVE DivBits(_, _, _, _)
DivBits(r, d, n, q) ==
  IF n = 0 THEN <<q, r>>
  ELSE LET r2 == PairDouble(r)
       IN IF PairGeq(r2, d) THEN DivBits(PairSub(r2, d), d, n - 1, 2 * q + 1)
          ELSE DivBits(r2, d, n - 1, 2 * q)

\* A nonzero number divided by zero is an infinity; the model writes it as
\* 2^2024, beyond every finite number of the program: the sums and the
\* truncation treat it as they treat the infinity.
FInf(s) == <<s, 2000, 16777216, 0>>

FDiv(a, b) ==
  IF IsZero(a) THEN FZero
  ELSE IF IsZero(b) THEN FInf(a[1])
  ELSE
    LET ma == <<a[3], a[4]>>
        mb == <<b[3], b[4]>>
        q0 == IF PairGeq(ma, mb) THEN 1 ELSE 0
        r0 == IF q0 = 1 THEN PairSub(ma, mb) ELSE ma
        d1 == DivBits(r0, mb, 28, q0)
        d2 == DivBits(d1[2], mb, 28, 0)
        st == d2[2] # <<0, 0>>
    IN Pack((a[1] + b[1]) % 2, a[2] - b[2] - 56, d1[1],
            IF st /\ d2[1] % 2 = 0 THEN d2[1] + 1 ELSE d2[1])

\* a < b
FLt(a, b) ==
  IF IsZero(a) THEN ~IsZero(b) /\ b[1] = 0
  ELSE IF IsZero(b) THEN a[1] = 1
  ELSE IF a[1] # b[1] THEN a[1] = 1
  ELSE IF a[1] = 0 THEN ~MagGeq(a, b)
  ELSE ~MagGeq(b, a)

\* Rust's `as u16` (and `as usize`, for the values below 2^16 the program
\* compares with row numbers): truncation toward zero, saturating at 0 for
\* negative numbers and at 65535 above.
Trunc(a) ==
  IF IsZero(a) \/ a[1] = 1 THEN 0
  ELSE IF a[2] <= -53 THEN 0
  ELSE IF a[2] > -36 THEN 65535
  ELSE LET t == a[3] \div Pow2(-a[2] - 28) IN IF t > 65535 THEN 65535 ELSE t

\* `n as f64` for 0 <= n < 2^28
FInt(n) == Pack(0, -3, 0, n * 8)

(***************************************************************************)
(* The constants of main()                                                 *)
(***************************************************************************)
\* Canvas::new(512, 512): image.width() and the number of rows of the image
width == 512
height == 512

map_height == 16
map_width == 16

\* f64 literals of the program
F_0_1 == <<0, -56, 26843545, 161061274>>      \* 0.1
F_0_2 == <<0, -55, 26843545, 161061274>>      \* 0.2
F_2 == <<0, -51, 16777216, 0>>                \* 2.0
F_4 == <<0, -50, 16777216, 0>>                \* 4.0
F_8 == <<0, -49, 16777216, 0>>                \* 8.0
F_3_14159 == <<0, -51, 26353567, 1803886>>    \* 3.14159

field_of_view_angle == FDiv(F_3_14159, F_4)

max_wall_check_depth == <<0, -48, 16777216, 0>>   \* 16.0

\* The screen columns the model renders: the two edges and the centre of the
\* field of view, or the centre alone.
Columns == {0, width \div 2, width - 1}
Centre == {width \div 2}

(***************************************************************************)
(* f64::sin and f64::cos, by table: every angle the program can reach      *)
(* within the bounds, with the results of the C library the program links. *)
(* Each entry is <<angle, sin(angle), cos(angle)>>.                        *)
(***************************************************************************)
SinCosTable ==
  <<
  <<<<1, -52, 23365607, 201777563>>, <<1, -53, 33023684, 227254021>>, <<0, -55, 23777685, 180491032>>>>,
  <<<<1, -52, 21687886, 40716290>>, <<1, -53, 32265252, 20139650>>, <<0, -54, 18423182, 193099413>>>>,
  <<<<1, -52, 20010164, 148090472>>, <<1, -53, 31184435, 153063387>>, <<0, -54, 24773444, 67290001>>>>,
  <<<<1, -52, 18332442, 255464654>>, <<1, -53, 29792034, 132438391>>, <<0, -54, 30876177, 192215188>>>>,
  <<<<1, -53, 33554431, 268435455>>, <<1, -53, 28235080, 252251373>>, <<0, -53, 18129536, 263521932>>>>,
  <<<<1, -53, 33309442, 188806762>>, <<1, -53, 28101961, 68670322>>, <<0, -53, 18335203, 83216132>>>>,
  <<<<1, -53, 30198988, 214748365>>, <<1, -53, 26284089, 140355649>>, <<0, -53, 20857769, 110289436>>>>,
  <<<<1, -53, 30198988, 214748364>>, <<1, -53, 26284089, 140355648>>, <<0, -53, 20857769, 110289437>>>>,
  <<<<1, -53, 29953999, 135119671>>, <<1, -53, 26131102, 137081275>>, <<0, -53, 21049118, 126518640>>>>,
  <<<<1, -53, 26843545, 161061273>>, <<1, -53, 24070476, 46137036>>, <<0, -53, 23377597, 242325606>>>>,
  <<<<1, -53, 26598556, 81432580>>, <<1, -53, 23899150, 114628833>>, <<0, -53, 23552717, 214421182>>>>,
  <<<<1, -53, 23488102, 107374182>>, <<1, -53, 21616358, 155589048>>, <<0, -53, 25663845, 44014995>>>>,
  <<<<1, -53, 23488102, 107374181>>, <<1, -53, 21616358, 155589047>>, <<0, -53, 25663845, 44014995>>>>,
  <<<<1, -53, 23243113, 27745489>>, <<1, -53, 21428405, 250269295>>, <<0, -53, 25820986, 41739462>>>>,
  <<<<1, -53, 23243113, 27745488>>, <<1, -53, 21428405, 250269294>>, <<0, -53, 25820986, 41739462>>>>,
  <<<<1, -53, 20429120, 82463371>>, <<1, -53, 19190194, 194610758>>, <<0, -53, 27525194, 139079683>>>>,
  <<<<1, -53, 20132659, 53687091>>, <<1, -53, 18946257, 128270681>>, <<0, -53, 27693667, 206068501>>>>,
  <<<<1, -53, 19887669, 242493854>>, <<1, -53, 18743555, 238595991>>, <<0, -53, 27831259, 202351917>>>>,
  <<<<1, -53, 19887669, 242493853>>, <<1, -53, 18743555, 238595990>>, <<0, -53, 27831259, 202351918>>>>,
  <<<<1, -53, 17073677, 28776281>>, <<1, -54, 32692778, 252995789>>, <<0, -53, 29303505, 241893192>>>>,
  <<<<1, -53, 16777216, 0>>, <<1, -54, 32173703, 72025584>>, <<0, -53, 29446784, 106659152>>>>,
  <<<<1, -54, 33064453, 109178069>>, <<1, -54, 31742852, 231234288>>, <<0, -53, 29563452, 162263549>>>>,
  <<<<1, -54, 33064453, 109178068>>, <<1, -54, 31742852, 231234287>>, <<0, -53, 29563452, 162263549>>>>,
  <<<<1, -54, 27436467, 218613834>>, <<1, -54, 26678512, 266987246>>, <<0, -53, 30789026, 91165975>>>>,
  <<<<1, -54, 26843545, 161061274>>, <<1, -54, 26133422, 153839467>>, <<0, -53, 30905678, 131834616>>>>,
  <<<<1, -54, 26353567, 1803886>>, <<1, -54, 25681429, 228747781>>, <<0, -53, 31000257, 56127767>>>>,
  <<<<1, -54, 20725581, 111239650>>, <<1, -54, 20397684, 43923841>>, <<0, -53, 31966913, 1189325>>>>,
  <<<<1, -54, 20132659, 53687092>>, <<1, -54, 19832025, 96123444>>, <<0, -53, 32055773, 70191546>>>>,
  <<<<1, -54, 20132659, 53687091>>, <<1, -54, 19832025, 96123443>>, <<0, -53, 32055773, 70191546>>>>,
  <<<<1, -54, 20132659, 53687090>>, <<1, -54, 19832025, 96123442>>, <<0, -53, 32055773, 70191547>>>>,
  <<<<1, -54, 19642680, 162865160>>, <<1, -54, 19363406, 130179997>>, <<0, -53, 32127317, 131800465>>>>,
  <<<<1, -54, 19642680, 162865159>>, <<1, -54, 19363406, 130179996>>, <<0, -53, 32127317, 131800465>>>>,
  <<<<1, -55, 28029390, 7730940>>, <<1, -55, 27826096, 222837984>>, <<0, -53, 32825396, 225850241>>>>,
  <<<<1, -55, 26843545, 161061276>>, <<1, -55, 26664946, 54383294>>, <<0, -53, 32885577, 91710074>>>>,
  <<<<1, -55, 26843545, 161061275>>, <<1, -55, 26664946, 54383293>>, <<0, -53, 32885577, 91710074>>>>,
  <<<<1, -55, 26843545, 161061274>>, <<1, -55, 26664946, 54383292>>, <<0, -53, 32885577, 91710074>>>>,
  <<<<1, -55, 26843545, 161061273>>, <<1, -55, 26664946, 54383291>>, <<0, -53, 32885577, 91710074>>>>,
  <<<<1, -55, 26843545, 161061272>>, <<1, -55, 26664946, 54383290>>, <<0, -53, 32885577, 91710074>>>>,
  <<<<1, -55, 25863588, 110981955>>, <<1, -55, 25703820, 193734249>>, <<0, -53, 32933372, 63460010>>>>,
  <<<<1, -55, 25863588, 110981954>>, <<1, -55, 25703820, 193734248>>, <<0, -53, 32933372, 63460010>>>>,
  <<<<1, -55, 25863588, 110981953>>, <<1, -55, 25703820, 193734247>>, <<0, -53, 32933372, 63460010>>>>,
  <<<<1, -56, 29215234, 122836064>>, <<1, -56, 29157592, 92112128>>, <<0, -53, 33355900, 43937399>>>>,
  <<<<1, -56, 26843545, 161061276>>, <<1, -56, 26798828, 193710894>>, <<0, -53, 33386799, 162011072>>>>,
  <<<<1, -56, 26843545, 161061274>>, <<1, -56, 26798828, 193710892>>, <<0, -53, 33386799, 162011073>>>>,
  <<<<1, -56, 26843545, 161061272>>, <<1, -56, 26798828, 193710890>>, <<0, -53, 33386799, 162011073>>>>,
  <<<<1, -56, 24883631, 60902636>>, <<1, -56, 24848008, 211214773>>, <<0, -53, 33410367, 164486036>>>>,
  <<<<1, -56, 24883631, 60902632>>, <<1, -56, 24848008, 211214769>>, <<0, -53, 33410367, 164486036>>>>,
  <<<<1, -59, 18973510, 231069248>>, <<1, -59, 18973264, 3312211>>, <<0, -53, 33553122, 95981939>>>>,
  <<<<1, -107, 16777216, 0>>, <<1, -107, 16777216, 0>>, <<0, -52, 16777216, 0>>>>,
  <<<<0, 0, 0, 0>>, <<0, 0, 0, 0>>, <<0, -52, 16777216, 0>>>>,
  <<<<0, -107, 16777216, 0>>, <<0, -107, 16777216, 0>>, <<0, -52, 16777216, 0>>>>,
  <<<<0, -60, 31358629, 260360960>>, <<0, -60, 31358351, 96200179>>, <<0, -53, 33553537, 171777762>>>>,
  <<<<0, -56, 24471856, 199286480>>, <<0, -56, 24437973, 43713422>>, <<0, -53, 33415092, 226568251>>>>,
  <<<<0, -56, 24471856, 199286488>>, <<0, -56, 24437973, 43713430>>, <<0, -53, 33415092, 226568251>>>>,
  <<<<0, -56, 26843545, 161061272>>, <<0, -56, 26798828, 193710890>>, <<0, -53, 33386799, 162011073>>>>,
  <<<<0, -56, 26843545, 161061274>>, <<0, -56, 26798828, 193710892>>, <<0, -53, 33386799, 162011073>>>>,
  <<<<0, -56, 26843545, 161061276>>, <<0, -56, 26798828, 193710894>>, <<0, -53, 33386799, 162011072>>>>,
  <<<<0, -56, 28803459, 261219912>>, <<0, -56, 28748220, 17197459>>, <<0, -53, 33361451, 217516643>>>>,
  <<<<0, -55, 25657701, 45956148>>, <<0, -55, 25501714, 23824923>>, <<0, -53, 32943190, 206257216>>>>,
  <<<<0, -55, 25657701, 45956152>>, <<0, -55, 25501714, 23824927>>, <<0, -53, 32943190, 206257216>>>>,
  <<<<0, -55, 26843545, 161061273>>, <<0, -55, 26664946, 54383291>>, <<0, -53, 32885577, 91710074>>>>,
  <<<<0, -55, 26843545, 161061274>>, <<0, -55, 26664946, 54383292>>, <<0, -53, 32885577, 91710074>>>>,
  <<<<0, -55, 26843545, 161061275>>, <<0, -55, 26664946, 54383293>>, <<0, -53, 32885577, 91710074>>>>,
  <<<<0, -55, 27823502, 211140592>>, <<0, -55, 27624650, 61236929>>, <<0, -53, 32836029, 102554260>>>>,
  <<<<0, -54, 19539736, 264569985>>, <<0, -54, 19264818, 120615835>>, <<0, -53, 32142131, 59087217>>>>,
  <<<<0, -54, 19539736, 264569986>>, <<0, -54, 19264818, 120615836>>, <<0, -53, 32142131, 59087217>>>>,
  <<<<0, -54, 20132659, 53687091>>, <<0, -54, 19832025, 96123443>>, <<0, -53, 32055773, 70191546>>>>,
  <<<<0, -54, 20132659, 53687092>>, <<0, -54, 19832025, 96123444>>, <<0, -53, 32055773, 70191546>>>>,
  <<<<0, -54, 20622637, 212944478>>, <<0, -54, 20299587, 6795952>>, <<0, -53, 31982520, 54314954>>>>,
  <<<<0, -54, 26250623, 103508712>>, <<0, -54, 25586292, 41993304>>, <<0, -53, 31019918, 32612395>>>>,
  <<<<0, -54, 26843545, 161061274>>, <<0, -54, 26133422, 153839467>>, <<0, -53, 30905678, 131834616>>>>,
  <<<<0, -54, 27333524, 51883204>>, <<0, -54, 26584022, 46483756>>, <<0, -53, 30809452, 67857096>>>>,
  <<<<0, -54, 32961509, 210882894>>, <<0, -54, 31652116, 24165119>>, <<0, -53, 29587764, 68401640>>>>,
  <<<<0, -54, 32961509, 210882895>>, <<0, -54, 31652116, 24165119>>, <<0, -53, 29587764, 68401639>>>>,
  <<<<0, -53, 16777216, 0>>, <<0, -54, 32173703, 72025584>>, <<0, -53, 29446784, 106659152>>>>,
  <<<<0, -53, 17022205, 79628693>>, <<0, -54, 32602838, 150047156>>, <<0, -53, 29328546, 118266441>>>>,
  <<<<0, -53, 19836198, 24910810>>, <<0, -53, 18700841, 72804250>>, <<0, -53, 27859979, 61235951>>>>,
  <<<<0, -53, 19836198, 24910811>>, <<0, -53, 18700841, 72804251>>, <<0, -53, 27859979, 61235950>>>>,
  <<<<0, -53, 20132659, 53687091>>, <<0, -53, 18946257, 128270681>>, <<0, -53, 27693667, 206068501>>>>,
  <<<<0, -53, 20377648, 133315784>>, <<0, -53, 19147949, 21334888>>, <<0, -53, 27554599, 130744317>>>>,
  <<<<0, -53, 23191641, 78597902>>, <<0, -53, 21388771, 234375599>>, <<0, -53, 25853826, 133751927>>>>,
  <<<<0, -53, 23488102, 107374182>>, <<0, -53, 21616358, 155589048>>, <<0, -53, 25663845, 44014995>>>>,
  <<<<0, -53, 26547084, 132284993>>, <<0, -53, 23862992, 251429831>>, <<0, -53, 23589350, 236270437>>>>,
  <<<<0, -53, 26843545, 161061273>>, <<0, -53, 24070476, 46137036>>, <<0, -53, 23377597, 242325606>>>>,
  <<<<0, -53, 29902527, 185972084>>, <<0, -53, 26098782, 231610085>>, <<0, -53, 21089178, 71321997>>>>,
  <<<<0, -53, 30198988, 214748364>>, <<0, -53, 26284089, 140355648>>, <<0, -53, 20857769, 110289437>>>>,
  <<<<0, -53, 33257970, 239659175>>, <<0, -53, 28073802, 101395014>>, <<0, -53, 18378289, 148482117>>>>,
  <<<<0, -53, 33554431, 268435455>>, <<0, -53, 28235080, 252251373>>, <<0, -53, 18129536, 263521932>>>>,
  <<<<0, -52, 18306707, 12455405>>, <<0, -53, 29768317, 198439287>>, <<0, -54, 30967542, 24922999>>>>,
  <<<<0, -52, 19984428, 173516678>>, <<0, -53, 31165397, 244278703>>, <<0, -54, 24869087, 170544981>>>>,
  <<<<0, -52, 21662150, 66142496>>, <<0, -53, 32251083, 195090377>>, <<0, -54, 18522149, 127450178>>>>,
  <<<<0, -52, 23339871, 227203770>>, <<0, -53, 33014527, 100856708>>, <<0, -55, 23980288, 64051256>>>>
  >>

SinCos == [a \in {t[1] : t \in {SinCosTable[i] : i \in DOMAIN SinCosTable}} |->
             CHOOSE t \in {SinCosTable[i] : i \in DOMAIN SinCosTable} : t[1] = a]

sin(a) == SinCos[a][2]
cos(a) == SinCos[a][3]

(***************************************************************************)
(* State                                                                   *)
(***************************************************************************)
VARIABLES
  map,                  \* Vec<char>: the characters of the layout literal
  keyboard,             \* KeyboardState: scancode, state, virtual_key_code
  player_x,             \* f64
  player_y,             \* f64
  player_vision_angle,  \* f64
  rays,                 \* per rendered column, the loop variables the last ray march ended with
  image,                \* per rendered column and row, the band last painted
  fault,                \* TRUE once an index was out of range (the thread panicked)
  last_input,           \* history: the keyboard event delivered last (state "None" before the first)
  events,               \* history: keyboard events delivered so far
  turns,                \* history: frames that rotated the player so far
  moves                 \* history: frames that displaced the player so far

vars == <<map, keyboard, player_x, player_y, player_vision_angle, rays, image, fault,
          last_input, events, turns, moves>>

(***************************************************************************)
(* keyboard.rs                                                             *)
(***************************************************************************)
\* KeyboardState::new
KeyboardState_new == [scancode |-> 0, state |-> "Pressed", virtual_key_code |-> "Key0"]

\* The keyboard events of the model: the press of A, D, W, S, of another key
\* (Q) and of a key the window system cannot name (virtual_keycode = None),
\* and the release of a key.
KeyboardInputs ==
  {[scancode |-> k[1], state |-> "Pressed", virtual_keycode |-> k[2]] :
     k \in {<<30, "A">>, <<32, "D">>, <<17, "W">>, <<31, "S">>, <<16, "Q">>, <<240, "None">>}}
  \cup {[scancode |-> 17, state |-> "Released", virtual_keycode |-> "W"]}

\* The arm of handle_input for Event::WindowEvent { KeyboardInput { input } }
KeyboardInput(kb, input) ==
  [scancode |-> input.scancode,
   state |-> input.state,
   virtual_key_code |->
     IF input.virtual_keycode = "None" THEN kb.virtual_key_code
     ELSE input.virtual_keycode]

\* KeyboardState::handle_input, on a keyboard event
handle_input(input, maxEvents) ==
  /\ ~fault
  /\ events < maxEvents
  /\ events' = events + 1
  /\ last_input' = input
  /\ keyboard' = KeyboardInput(keyboard, input)
  /\ UNCHANGED <<map, player_x, player_y, player_vision_angle, rays, image, fault, turns, moves>>

\* KeyboardState::handle_input, on any other event: `_ => false`
handle_other ==
  /\ ~fault
  /\ UNCHANGED vars

\* KeyboardState::key_pressed
key_pressed(kb) == IF kb.state = "Pressed" THEN kb.virtual_key_code ELSE "None"

(***************************************************************************)
(* main.rs: the render closure                                             *)
(***************************************************************************)
\* map[(y as u16 * map_width + x as u16) as usize], u16 arithmetic
CellIndex(x, y) == (Trunc(y) * map_width + Trunc(x)) % 65536

\* x += sin(angle) * step; y += cos(angle) * step
Tentative(x, y, a, step) == <<FAdd(x, FMul(sin(a), step)), FAdd(y, FMul(cos(a), step))>>

\* The W arm (step = 0.2) and the S arm (step = -0.2; x -= v is x += -v in
\* f64): the step, the look-up of the cell, the step back.  The result is
\* <<x, y, angle, fault>>, fault for an index past the end of map.
Walk(x, y, a, step) ==
  LET t == Tentative(x, y, a, step)
      i == CellIndex(t[1], t[2])
  IN IF i >= Len(map) THEN <<t[1], t[2], a, TRUE>>
     ELSE IF map[i + 1] = "#"
     THEN <<FSub(t[1], FMul(sin(a), step)), FSub(t[2], FMul(cos(a), step)), a, FALSE>>
     ELSE <<t[1], t[2], a, FALSE>>

\* match keyboard.key_pressed() { ... }
KeyMatch(key, x, y, a) ==
  CASE key = "A" -> <<x, y, FSub(a, F_0_1), FALSE>>
    [] key = "D" -> <<x, y, FAdd(a, F_0_1), FALSE>>
    [] key = "W" -> Walk(x, y, a, F_0_2)
    [] key = "S" -> Walk(x, y, a, FNeg(F_0_2))
    [] OTHER -> <<x, y, a, FALSE>>

\* LoopBody without `distance_to_wall += 0.1`: the test point is taken at the
\* distance the round starts with.
LoopBody_NoIncrement(px, py, ux, uy, r) ==
  LET d1 == r.distance
      test_x == Trunc(FAdd(px, FMul(ux, d1)))
      test_y == Trunc(FAdd(py, FMul(uy, d1)))
  IN IF test_x >= map_width \/ test_y >= map_height
     THEN [distance |-> max_wall_check_depth, steps |-> r.steps + 1,
           hit_wall |-> TRUE, fault |-> FALSE]
     ELSE IF test_y * map_width + test_x >= Len(map)
     THEN [distance |-> d1, steps |-> r.steps + 1, hit_wall |-> FALSE, fault |-> TRUE]
     ELSE [distance |-> d1, steps |-> r.steps + 1,
           hit_wall |-> (map[test_y * map_width + test_x + 1] = "#"), fault |-> FALSE]

\* LoopBody with a wall test that no cell of the layout passes (`== '*'`)
LoopBody_NoWall(px, py, ux, uy, r) ==
  LET d1 == FAdd(r.distance, F_0_1)
      test_x == Trunc(FAdd(px, FMul(ux, d1)))
      test_y == Trunc(FAdd(py, FMul(uy, d1)))
  IN IF test_x >= map_width \/ test_y >= map_height
     THEN [distance |-> max_wall_check_depth, steps |-> r.steps + 1,
           hit_wall |-> TRUE, fault |-> FALSE]
     ELSE IF test_y * map_width + test_x >= Len(map)
     THEN [distance |-> d1, steps |-> r.steps + 1, hit_wall |-> FALSE, fault |-> TRUE]
     ELSE [distance |-> d1, steps |-> r.steps + 1,
           hit_wall |-> (map[test_y * map_width + test_x + 1] = "*"), fault |-> FALSE]

\* One round of the while loop of the ray march, from the loop's variables
\* r = [distance, steps, hit_wall, fault] (steps counts the rounds; fault is
\* an index past the end of map, on which the program panics).
LoopBody(px, py, ux, uy, r) ==
  LET d1 == FAdd(r.distance, F_0_1)
      test_x == Trunc(FAdd(px, FMul(ux, d1)))
      test_y == Trunc(FAdd(py, FMul(uy, d1)))
  IN IF test_x >= map_width \/ test_y >= map_height
     THEN [distance |-> max_wall_check_depth, steps |-> r.steps + 1,
           hit_wall |-> TRUE, fault |-> FALSE]
     ELSE IF test_y * map_width + test_x >= Len(map)
     THEN [distance |-> d1, steps |-> r.steps + 1, hit_wall |-> FALSE, fault |-> TRUE]
     ELSE [distance |-> d1, steps |-> r.steps + 1,
           hit_wall |-> (map[test_y * map_width + test_x + 1] = "#"), fault |-> FALSE]

\* while !hit_wall && distance_to_wall < max_wall_check_depth
LoopCondition(r) == ~r.hit_wall /\ FLt(r.distance, max_wall_check_depth)

\* The loop, unrolled in MarchBlocks blocks of MarchBlock rounds (TLC evaluates
\* a recursion of bounded depth only)
RECURSIVE Rounds(_, _, _, _, _, _)
Rounds(px, py, ux, uy, r, n) ==
  IF n = 0 \/ r.fault \/ ~LoopCondition(r) THEN r
  ELSE Rounds(px, py, ux, uy, LoopBody(px, py, ux, uy, r), n - 1)

RECURSIVE Blocks(_, _, _, _, _, _)
Blocks(px, py, ux, uy, r, n) ==
  IF n = 0 \/ r.fault \/ ~LoopCondition(r) THEN r
  ELSE Blocks(px, py, ux, uy, Rounds(px, py, ux, uy, r, MarchBlock), n - 1)

\* hit_wall = false; distance_to_wall = 0.0; while ...
March(px, py, ux, uy) ==
  Blocks(px, py, ux, uy,
         [distance |-> FZero, steps |-> 0, hit_wall |-> FALSE, fault |-> FALSE],
         MarchBlocks)

ray_angle(a, x) ==
  FAdd(FSub(a, FDiv(field_of_view_angle, F_2)),
       FMul(FDiv(FInt(x), FInt(width)), field_of_view_angle))

castColumn(px, py, a, x) ==
  March(px, py, sin(ray_angle(a, x)), cos(ray_angle(a, x)))

\* floor_upper_boundary and ceiling_lower_boundary of a column
floor_upper_boundary(d) == FSub(FDiv(FInt(width), F_2), FDiv(FInt(width), d))
ceiling_lower_boundary(d) == FSub(FInt(width), floor_upper_boundary(d))

\* The band of row y, given the two boundaries `as usize`.  The bands stand
\* for their colours: the shaded floor, the shaded wall, and Color {0, 0, 0}
\* of the last branch, which the source calls the ceiling.
Band(y, floor, ceiling) ==
  IF y < floor THEN "floor"
  ELSE IF y > floor /\ y <= ceiling THEN "wall"
  ELSE "ceiling"

\* The pixels of a column, from the distance its ray march ended with
PaintColumn(d) ==
  LET floor == Trunc(floor_upper_boundary(d))
      ceiling == Trunc(ceiling_lower_boundary(d))
  IN [y \in 0..(height - 1) |-> Band(y, floor, ceiling)]

\* The state when the event loop starts.  A backslash at the end of a line
\* of a Rust string literal drops the line break and the indentation of the
\* next line, so the characters of the layout are its rows laid end to end.
Init ==
  /\ map =
      <<
        "#", "#", "#", "#", "#", "#", "#", "#", "#", "#", "#", "#", "#", "#", "#", "#",
        "#", ".", ".", ".", ".", ".", ".", ".", ".", ".", ".", ".", ".", ".", ".", "#",
        "#", ".", ".", ".", ".", ".", ".", ".", ".", ".", ".", ".", ".", ".", ".", "#",
        "#", ".", ".", ".", ".", ".", ".", "#", "#", "#", "#", ".", ".", ".", ".", "#",
        "#", ".", ".", ".", ".", ".", ".", ".", ".", ".", ".", ".", ".", ".", ".", "#",
        "#", ".", ".", ".", ".", ".", ".", "#", "#", "#", "#", "#", "#", "#", "#", "#",
        "#", ".", ".", ".", ".", ".", ".", ".", ".", ".", ".", ".", ".", ".", ".", "#",
        "#", ".", ".", ".", ".", ".", ".", ".", ".", ".", ".", ".", ".", "#", "#", "#",
        "#", ".", ".", ".", ".", ".", ".", ".", ".", ".", ".", ".", ".", ".", ".", "#",
        "#", ".", ".", ".", ".", ".", ".", ".", ".", ".", ".", ".", ".", ".", ".", "#",
        "#", ".", ".", ".", ".", ".", ".", ".", ".", ".", ".", ".", ".", ".", ".", "#",
        "#", ".", "#", "#", ".", ".", ".", ".", ".", ".", ".", ".", ".", ".", ".", "#",
        "#", ".", ".", ".", ".", ".", ".", "#", ".", ".", ".", ".", ".", ".", ".", "#",
        "#", ".", ".", ".", ".", ".", ".", "#", ".", ".", ".", ".", ".", ".", ".", "#",
        "#", "#", "#", "#", "#", "#", "#", "#", "#", "#", "#", "#", "#", "#", "#", "#"
      >>
  /\ keyboard = KeyboardState_new
  /\ player_x = F_8
  /\ player_y = F_8
  /\ player_vision_angle = FZero
  /\ rays = <<>>
  /\ image = <<>>
  /\ fault = FALSE
  /\ last_input = [scancode |-> 0, state |-> "None", virtual_keycode |-> "None"]
  /\ events = 0
  /\ turns = 0
  /\ moves = 0

\* One call of the render closure: the key match, then every pixel of the
\* columns cols.  The closure casts the ray of a column again for every row,
\* with the same result; the model casts it once.
Frame(cols, maxTurns, maxMoves) ==
  /\ ~fault
  /\ \E key \in {key_pressed(keyboard)} :
       \E p \in {KeyMatch(key, player_x, player_y, player_vision_angle)} :
         /\ key \in {"A", "D"} => turns < maxTurns
         /\ <<p[1], p[2]>> # <<player_x, player_y>> => moves < maxMoves
         /\ player_x' = p[1]
         /\ player_y' = p[2]
         /\ player_vision_angle' = p[3]
         /\ turns' = IF key \in {"A", "D"} THEN turns + 1 ELSE turns
         /\ moves' = IF <<p[1], p[2]>> # <<player_x, player_y>> THEN moves + 1 ELSE moves
         /\ IF p[4] THEN fault' = TRUE /\ UNCHANGED <<rays, image>>
            ELSE /\ rays' = [x \in cols |-> castColumn(p[1], p[2], p[3], x)]
                 /\ fault' = (\E x \in cols : rays'[x].fault)
                 /\ image' = IF fault' THEN image
                             ELSE [x \in cols |-> PaintColumn(rays'[x].distance)]
         /\ UNCHANGED <<map, keyboard, last_input, events>>

Next ==
  \/ \E input \in KeyboardInputs : handle_input(input, MaxEvents)
  \/ handle_other
  \/ Frame(Columns, MaxTurns, MaxMoves)

Spec == Init /\ [][Next]_vars

NextWalk ==
  \/ \E input \in KeyboardInputs : handle_input(input, WalkEvents)
  \/ handle_other
  \/ Frame(Centre, WalkTurns, WalkMoves)

SpecWalk == Init /\ [][NextWalk]_vars

NextTurn ==
  \/ \E input \in KeyboardInputs : handle_input(input, TurnEvents)
  \/ handle_other
  \/ Frame(Centre, TurnTurns, TurnMoves)

SpecTurn == Init /\ [][NextTurn]_vars
(***************************************************************************)
(* The claims                                                              *)
(***************************************************************************)
\* The cell of the layout under a point, "" past the end of the layout
CellAt(x, y) == IF CellIndex(x, y) < Len(map) THEN map[CellIndex(x, y) + 1] ELSE ""

\* A step of the program that is a frame: no keyboard event is delivered
IsFrame == events' = events

\* C1: after any sequence of frames and keyboard events, the cell under the
\* player's (x, y), truncated, is never a wall cell.
C1_PlayerNeverInWall == CellAt(player_x, player_y) # "#"

\* The key bound to a command that the last keyboard event pressed, or "None"
PressedCommand(input) ==
  IF input.state = "Pressed" /\ input.virtual_keycode \in {"A", "D", "W", "S"}
  THEN input.virtual_keycode ELSE "None"

\* C2: a frame applies the command bound to the key that the last keyboard
\* event pressed, if that event is a press of A, D, W or S, and leaves x, y
\* and the orientation unchanged in every other case.
C2_CommandOfLastEvent ==
  [][IsFrame =>
       <<player_x', player_y', player_vision_angle'>> =
         SubSeq(KeyMatch(PressedCommand(last_input), player_x, player_y,
                         player_vision_angle), 1, 3)]_vars

\* C3: the distance a ray march ends with lies in [0, max_wall_check_depth].
C3_DistanceInRange ==
  \A x \in DOMAIN rays :
    /\ ~FLt(rays[x].distance, FZero)
    /\ ~FLt(max_wall_check_depth, rays[x].distance)

\* The step of the W arm and of the S arm
StepOf(key) == IF key = "W" THEN F_0_2 ELSE FNeg(F_0_2)

\* The step that W or S tries lands on a wall cell
LandsOnWall(key) ==
  LET t == Tentative(player_x, player_y, player_vision_angle, StepOf(key))
  IN CellAt(t[1], t[2]) = "#"

\* C4: a frame that dispatches W or S and whose step lands on a wall cell
\* leaves x, y and the orientation as they were.
C4_BlockedStepRestores ==
  [][(IsFrame /\ key_pressed(keyboard) \in {"W", "S"} /\ LandsOnWall(key_pressed(keyboard)))
       => /\ player_x' = player_x
          /\ player_y' = player_y
          /\ player_vision_angle' = player_vision_angle]_vars

\* C5: the layout has map_height * map_width cells, each a wall or empty.
C5_MapShape ==
  /\ Len(map) = map_height * map_width
  /\ \A i \in DOMAIN map : map[i] \in {"#", "."}

\* C6: in every painted column, row y is floor when y < F, wall when
\* F < y <= C, and the flat black of the ceiling only when y > C, F and C
\* being the column's boundaries truncated to rows.
C6_BandsPartition ==
  \A x \in DOMAIN image :
    LET F == Trunc(floor_upper_boundary(rays[x].distance))
        C == Trunc(ceiling_lower_boundary(rays[x].distance))
    IN \A y \in 0..(height - 1) :
         /\ y < F => image[x][y] = "floor"
         /\ (F < y /\ y <= C) => image[x][y] = "wall"
         /\ image[x][y] = "ceiling" => y > C

\* The reference scan of C7: the first multiple k * 0.1, k >= 1, whose
\* truncated test point is a wall cell, or max_wall_check_depth if a test
\* point outside the map or the depth limit comes first.
ScanPoint(px, py, a, x, k) ==
  LET d == FMul(FInt(k), F_0_1)
  IN <<Trunc(FAdd(px, FMul(sin(ray_angle(a, x)), d))),
       Trunc(FAdd(py, FMul(cos(ray_angle(a, x)), d)))>>

ScanStops(px, py, a, x, k) ==
  LET t == ScanPoint(px, py, a, x, k)
  IN \/ t[1] >= map_width
     \/ t[2] >= map_height
     \/ (t[2] * map_width + t[1] < Len(map) /\ map[t[2] * map_width + t[1] + 1] = "#")

ReferenceScan(px, py, a, x) ==
  LET S == {k \in 1..160 : ScanStops(px, py, a, x, k)}
  IN IF S = {} THEN max_wall_check_depth
     ELSE LET k == CHOOSE k \in S : \A j \in S : k <= j
              t == ScanPoint(px, py, a, x, k)
          IN IF t[1] >= map_width \/ t[2] >= map_height THEN max_wall_check_depth
             ELSE FMul(FInt(k), F_0_1)

\* C7: the ray march of every column returns the distance of the reference
\* scan; for the player at (8, 8) with orientation 0 and the centre column
\* that is the distance of the first wall cell along +y.
C7_MatchesReferenceScan ==
  \A x \in DOMAIN rays :
    rays[x].distance = ReferenceScan(player_x, player_y, player_vision_angle, x)

\* C8: every ray march ends, and after at most 160 rounds.
C8_MarchEndsWithin160 ==
  \A x \in DOMAIN rays : ~LoopCondition(rays[x]) /\ rays[x].steps <= 160

\* C9: the distance handed to the shading is at least one step of 0.1, so
\* the division by the distance never divides by zero.
C9_DistanceAtLeastOneStep ==
  \A x \in DOMAIN rays : ~IsZero(rays[x].distance) /\ ~FLt(rays[x].distance, F_0_1)

\* A column was marched to a wall and painted with a floor band, whose
\* boundary is the quotient by the distance
C9_Witness ==
  \E x \in DOMAIN image : rays[x].hit_wall /\ rays[x].steps > 0 /\ image[x][0] = "floor"

\* C10: every index into the layout, of the wall check after a W or S step
\* and of the wall check of a ray's test point, is below the length of the
\* layout: no frame faults.
C10_IndicesInRange ==
  /\ ~fault
  /\ CellIndex(player_x, player_y) < Len(map)

\* A W or S step was checked against the layout and displaced the player,
\* and the rays of the frame looked their test points up until a wall
C10_Witness == moves > 0 /\ ~fault /\ \A x \in Columns : x \in DOMAIN rays /\ rays[x].hit_wall

====
